---- MODULE Spec2Model ----
(***************************************************************************)
(* The DeFi-ops swap agent of ai_agents/defiops_agent.py (the "legacy"     *)
(* variant: Tenderly fork / 1inch) and of                                  *)
(* ai_agents/DEFIOPS_AGENT/new_defiops_agent.py (the "sepolia" variant:    *)
(* the deployed DASH/SMS liquidity pool).                                  *)
(*                                                                         *)
(* One run of app.invoke(initial_state) is modelled: the LangGraph graph   *)
(* of eight nodes, the AgentState dictionary handed from node to node, the *)
(* external calls every node makes (LLM, CoinGecko, 1inch, JSON-RPC reads, *)
(* transaction submissions, receipt waits, stdin) with every outcome the   *)
(* call can have, and the allowance the approval grants on chain.          *)
(*                                                                         *)
(* Optional[...] values are sequences of length at most one: None is <<>>  *)
(* and a value v is <<v>>.  Decimal amounts are pairs [m, e] standing for  *)
(* m * 10^-e; USD values are exact fractions [num, den].                   *)
(***************************************************************************)
EXTENDS Integers, Sequences, FiniteSets, TLC

VARIABLES
    variant,      \* "sepolia" (new_defiops_agent.py) or "legacy" (defiops_agent.py)
    IS_TESTING,   \* legacy: the IS_TESTING switch read from the environment
    pool_token0,  \* sepolia: the symbol of the token the pool reports as token0
    pool_reserves,\* sepolia: what the pool's getReserves returns, <<reserve0, reserve1>>
    state,        \* the AgentState dictionary
    active,       \* the nodes the graph has scheduled to run next
    ran,          \* the nodes that have run, in order
    raised,       \* an exception has propagated out of app.invoke
    calls,        \* the external calls made so far, in order
    everFailed,   \* some node has set status to "failed" in this run
    allowance,    \* the allowance the wallet has granted to the pool / router
    typed,        \* the line the user typed at the "Approve?" prompt, if asked
    SYMBOL_TO_ID, \* the module-level mapping from token symbol to CoinGecko id
    call_args,    \* the arguments of a helper function called on its own
    call_result   \* what that call returned or raised, once it was made

vars == <<variant, IS_TESTING, pool_token0, pool_reserves, state, active, ran, raised, calls,
          everFailed, allowance, typed, SYMBOL_TO_ID, call_args, call_result>>

-----------------------------------------------------------------------------
(* Bounds of the model *)

MaxPrice == 100
MaxReserve == 1000
MaxBalance == 500
MaxMantissa == 1100    \* the largest coefficient of an amount given to a helper
MaxExponent == 3       \* the most fractional digits of such an amount
DecimalPrec == 3       \* the digits of getcontext().prec (60 in the source)
FloatBits == 11        \* the bits of a float's significand (53 in the source)
MaxToAmount == 2100    \* the largest quoted output given to a helper

-----------------------------------------------------------------------------
(* Optional values *)

None == <<>>
Some(v) == <<v>>
Val(o) == o[1]

RECURSIVE Pow10(_)
Pow10(n) == IF n = 0 THEN 1 ELSE 10 * Pow10(n - 1)

-----------------------------------------------------------------------------
(* Configuration *)

Variants == {"sepolia", "legacy"}

\* The keys of TOKEN_MAP and the decimals of each token, per variant.
TokenDecimals(v) ==
    IF v = "sepolia"
    THEN [s \in {"DASH", "SMS", "USDC"} |-> IF s = "USDC" THEN 1 ELSE 2]
    ELSE [s \in {"WETH", "UNI"} |-> 2]

TOKEN_MAP(v) == DOMAIN TokenDecimals(v)

\* The symbols the LLM may name: the mapped ones, an unmapped one and, in the
\* sepolia variant, a mapped one in lower case.
Symbols(v) == TOKEN_MAP(v) \cup {"XYZ"} \cup (IF v = "sepolia" THEN {"dash"} ELSE {})

WHALES == {"USDC", "USDT", "DAI", "WETH"}

PoolTokens == {"DASH", "SMS"}

\* PRIVATE_KEY is set whenever app.invoke runs: the script stops before otherwise.
PRIVATE_KEY_SET == TRUE

\* user_wallet is the account's address or a fixed address: never empty.
USER_WALLET_SET == TRUE

CONFIRM_THRESHOLD_USD == 100

AmountSet == {[m |-> 1, e |-> 0], [m |-> 5, e |-> 0], [m |-> 5, e |-> 1], [m |-> 1, e |-> 3]}

PriceSet == {1, MaxPrice}

ReserveSet == {<<MaxReserve, MaxReserve>>, <<MaxReserve, MaxReserve \div 2>>}

BalanceSet == {0, MaxBalance}

-----------------------------------------------------------------------------
(* The AgentState dictionary *)

Statuses == {"initialized", "intent_parsed", "quote_ready", "swap_ready",
             "rejected", "executed", "completed", "failed"}

initial_state ==
    [ intent                |-> None,
      price_usd             |-> None,
      quote                 |-> None,
      confirmation_required |-> FALSE,
      user_approved         |-> None,
      execution_tx_hash     |-> None,
      status                |-> "initialized",
      error                 |-> None,
      memory                |-> [token_price |-> None, price_usd |-> None,
                                 final_balance |-> None],
      swap_transaction      |-> None ]

\* state["status"] = "failed"; state["error"] = msg
Fail(st, msg) == [st EXCEPT !.status = "failed", !.error = Some(msg)]

-----------------------------------------------------------------------------
(* The graph *)

Nodes == {"INTERPRET_INTENT", "PRICE_FETCH", "QUOTE_FETCH", "BUILD_SWAP",
          "DECIDE", "HUMAN_CONFIRM", "EXECUTE", "MONITOR"}

\* Mutant: the conditional edge always asks for confirmation.
Route_AlwaysConfirm(st) == "HUMAN_CONFIRM"

\* The conditional edge after DECIDE.
Route(st) == IF st.confirmation_required THEN "HUMAN_CONFIRM" ELSE "EXECUTE"

\* Mutant: a plain edge DECIDE -> EXECUTE is added beside the conditional one.
NextNodes_ExtraEdge(n, st) ==
    CASE n = "INTERPRET_INTENT" -> {"PRICE_FETCH"}
      [] n = "PRICE_FETCH"      -> {"QUOTE_FETCH"}
      [] n = "QUOTE_FETCH"      -> {"BUILD_SWAP"}
      [] n = "BUILD_SWAP"       -> {"DECIDE"}
      [] n = "DECIDE"           -> {Route(st), "EXECUTE"}
      [] n = "HUMAN_CONFIRM"    -> {"EXECUTE"}
      [] n = "EXECUTE"          -> {"MONITOR"}
      [] n = "MONITOR"          -> {}

\* Mutant: EXECUTE is run again when it failed.
NextNodes_RetryExecute(n, st) ==
    CASE n = "INTERPRET_INTENT" -> {"PRICE_FETCH"}
      [] n = "PRICE_FETCH"      -> {"QUOTE_FETCH"}
      [] n = "QUOTE_FETCH"      -> {"BUILD_SWAP"}
      [] n = "BUILD_SWAP"       -> {"DECIDE"}
      [] n = "DECIDE"           -> {Route(st)}
      [] n = "HUMAN_CONFIRM"    -> {"EXECUTE"}
      [] n = "EXECUTE"          -> IF st.status = "failed" THEN {"EXECUTE"} ELSE {"MONITOR"}
      [] n = "MONITOR"          -> {}

\* graph.add_edge / add_conditional_edges / set_finish_point
NextNodes(n, st) ==
    CASE n = "INTERPRET_INTENT" -> {"PRICE_FETCH"}
      [] n = "PRICE_FETCH"      -> {"QUOTE_FETCH"}
      [] n = "QUOTE_FETCH"      -> {"BUILD_SWAP"}
      [] n = "BUILD_SWAP"       -> {"DECIDE"}
      [] n = "DECIDE"           -> {Route(st)}
      [] n = "HUMAN_CONFIRM"    -> {"EXECUTE"}
      [] n = "EXECUTE"          -> {"MONITOR"}
      [] n = "MONITOR"          -> {}

\* One external call: the node making it, the operation, whether it returned
\* normally, and whether an earlier node had already set status "failed".
Ev(n, op, ok) ==
    [node |-> n, op |-> op, ok |-> ok, late |-> everFailed, receipt |-> "none",
     reply |-> None]

\* A wait_for_transaction_receipt that returned a receipt: its status is 1
\* ("success") or 0 ("reverted").
EvReceipt(n, op, receipt) ==
    [node |-> n, op |-> op, ok |-> TRUE, late |-> everFailed, receipt |-> receipt,
     reply |-> None]

\* A call that returned a body the node goes on to parse.
EvReply(n, op, reply) ==
    [node |-> n, op |-> op, ok |-> TRUE, late |-> everFailed, receipt |-> "none",
     reply |-> Some(reply)]

\* The node returns st: the graph stores it and schedules the successors.
ReturnAll(n, st, evs, alw, line, ids) ==
    /\ state' = st
    /\ typed' = line
    /\ SYMBOL_TO_ID' = ids
    /\ calls' = calls \o evs
    /\ ran' = Append(ran, n)
    /\ active' = (active \ {n}) \cup NextNodes(n, st)
    /\ raised' = FALSE
    /\ everFailed' = (everFailed \/ st.status = "failed")
    /\ allowance' = alw
    /\ UNCHANGED <<variant, IS_TESTING, pool_token0, pool_reserves, call_args, call_result>>

ReturnTyped(n, st, evs, alw, line) == ReturnAll(n, st, evs, alw, line, SYMBOL_TO_ID)

Return(n, st, evs, alw) == ReturnTyped(n, st, evs, alw, typed)

\* The node returns after get_price_usd left the symbol mapping as ids.
ReturnPrice(n, st, evs, ids) == ReturnAll(n, st, evs, allowance, typed, ids)

\* The node raises: the exception leaves app.invoke and the run is over.
Raise(n, evs) ==
    /\ calls' = calls \o evs
    /\ ran' = Append(ran, n)
    /\ active' = {}
    /\ raised' = TRUE
    /\ UNCHANGED <<state, everFailed, allowance, typed, SYMBOL_TO_ID, variant,
                   IS_TESTING, pool_token0, pool_reserves, call_args, call_result>>

-----------------------------------------------------------------------------
(* Node 1: INTERPRET_INTENT *)

\* What llm.invoke may return: text that is no JSON, a JSON object lacking a
\* field, or a JSON object with the four fields (the amount possibly 0).
LLMResponses(v) ==
    {[kind |-> "text"], [kind |-> "incomplete"]}
    \cup {[kind |-> "json", action |-> "swap", asset_in |-> a, asset_out |-> b,
           amount |-> q] :
            a \in Symbols(v), b \in Symbols(v),
            q \in AmountSet \cup {[m |-> 0, e |-> 0]}}

\* Mutant: Info accepts an amount that is not positive.
InfoValid_AnyAmount(resp) == resp.kind = "json"

\* Info.model_validate: the four fields are present and amount > 0.
InfoValid(resp) == resp.kind = "json" /\ resp.amount.m > 0

model_dump(resp) ==
    [action |-> resp.action, asset_in |-> resp.asset_in,
     asset_out |-> resp.asset_out, amount |-> resp.amount]

\* Mutant: the JSON failure sets the status and forgets the error.
InterpretResult_NoError(st, resp) ==
    IF resp.kind = "text"
    THEN [st EXCEPT !.status = "failed"]
    ELSE IF ~InfoValid(resp)
    THEN Fail(st, "Validation failed")
    ELSE [st EXCEPT !.intent = Some(model_dump(resp)), !.status = "intent_parsed"]

InterpretResult(st, resp) ==
    IF resp.kind = "text"
    THEN Fail(st, "Could not parse JSON from LLM")
    ELSE IF ~InfoValid(resp)
    THEN Fail(st, "Validation failed")
    ELSE [st EXCEPT !.intent = Some(model_dump(resp)), !.status = "intent_parsed"]

node_interpret_intent ==
    /\ "INTERPRET_INTENT" \in active
    /\ \E ok \in BOOLEAN :
         IF ~ok
         THEN Raise("INTERPRET_INTENT", <<Ev("INTERPRET_INTENT", "llm.invoke", FALSE)>>)
         ELSE \E resp \in LLMResponses(variant) :
                Return("INTERPRET_INTENT", InterpretResult(state, resp),
                       <<EvReply("INTERPRET_INTENT", "llm.invoke", resp)>>, allowance)

-----------------------------------------------------------------------------
(* get_price_usd *)

\* SYMBOL_TO_ID as the module defines it.
SYMBOL_TO_ID_INITIAL ==
    [s \in {"ETH", "BTC", "WETH", "UNI", "USDC", "MATIC", "BNB", "SOL", "DAI"} |->
        CASE s = "ETH"   -> "ethereum"
          [] s = "BTC"   -> "bitcoin"
          [] s = "WETH"  -> "weth"
          [] s = "UNI"   -> "uniswap"
          [] s = "USDC"  -> "usd-coin"
          [] s = "MATIC" -> "matic-network"
          [] s = "BNB"   -> "binancecoin"
          [] s = "SOL"   -> "solana"
          [] s = "DAI"   -> "dai"]

\* token_symbol.upper()
Upper(token_symbol) == IF token_symbol = "dash" THEN "DASH" ELSE token_symbol

\* The id of the first coin of CoinGecko's /coins/list with the symbol.
CoinGeckoId(symbol) ==
    CASE symbol = "DASH" -> "dash"
      [] symbol = "SMS"  -> "sms"
      [] symbol = "XYZ"  -> "xyz"
      [] OTHER           -> "other"

\* Mutant: the id is stored under the symbol as it was passed in.
CacheKey_Raw(token_symbol) == token_symbol

\* The key under which a looked-up id is stored: SYMBOL_TO_ID[token_symbol] = token_id
CacheKey(token_symbol) == Upper(token_symbol)

\* One outcome of get_price_usd: it returned a price or raised, the calls it
\* made, and SYMBOL_TO_ID as it left it.
PriceOutcome(ok, price, evs, ids) == [ok |-> ok, price |-> price, evs |-> evs, ids |-> ids]

\* The /simple/price request for a symbol whose id is known.
SimplePrice(n, evs, ids) ==
    {PriceOutcome(FALSE, 0, evs \o <<Ev(n, "coingecko.price", FALSE)>>, ids)}
    \cup {PriceOutcome(TRUE, p, evs \o <<Ev(n, "coingecko.price", TRUE)>>, ids) :
             p \in PriceSet}

\* get_price_usd(token_symbol) called by node n with the mapping ids.
get_price_usd(n, token_symbol, ids) ==
    IF Upper(token_symbol) \in DOMAIN ids
    THEN SimplePrice(n, <<>>, ids)
    ELSE \* the /coins/list request raises, does not list the symbol, or lists it
         {PriceOutcome(FALSE, 0, <<Ev(n, "coingecko.list", FALSE)>>, ids),
          PriceOutcome(FALSE, 0, <<Ev(n, "coingecko.list", TRUE)>>, ids)}
         \cup SimplePrice(n, <<Ev(n, "coingecko.list", TRUE)>>,
                          (CacheKey(token_symbol) :> CoinGeckoId(Upper(token_symbol)))
                              @@ ids)

-----------------------------------------------------------------------------
(* Node 2: PRICE_FETCH *)

\* price * float(amount), as an exact fraction.
TotalUsd(price, amount) == [num |-> price * amount.m, den |-> Pow10(amount.e)]

PriceFetchOk(st, price) ==
    LET total_usd == TotalUsd(price, Val(st.intent).amount)
    IN  [st EXCEPT !.price_usd = Some(total_usd),
                   !.memory.price_usd = Some(total_usd),
                   !.memory.token_price = Some(price)]

node_price_fetch ==
    /\ "PRICE_FETCH" \in active
    /\ IF state.intent = None
       THEN \* state["intent"]["asset_in"] is evaluated outside the try block
            Raise("PRICE_FETCH", <<>>)
       ELSE \E o \in get_price_usd("PRICE_FETCH", Val(state.intent).asset_in, SYMBOL_TO_ID) :
              IF o.ok
              THEN ReturnPrice("PRICE_FETCH", PriceFetchOk(state, o.price), o.evs, o.ids)
              ELSE ReturnPrice("PRICE_FETCH", Fail(state, "Price fetch failed"),
                               o.evs, o.ids)

-----------------------------------------------------------------------------
(* Node 3: QUOTE_FETCH *)

\* Mutant: an unmapped symbol is not reported and the state is returned as it was.
UnsupportedToken_Ignored(st) == st

\* a_in not in TOKEN_MAP or a_out not in TOKEN_MAP
UnsupportedToken(st) == Fail(st, "unsupported token symbol")

\* The number of digits of a positive coefficient.
RECURSIVE Digits(_)
Digits(m) == IF m < 10 THEN 1 ELSE 1 + Digits(m \div 10)

\* m / unit rounded to the nearest integer, ties to the even one.
RoundHalfEvenBy(m, unit) ==
    LET q == m \div unit
        r == m % unit
    IN  IF 2 * r > unit \/ (2 * r = unit /\ q % 2 = 1) THEN q + 1 ELSE q

\* m without its k low digits, rounded half to even (the context's rounding).
RoundHalfEven(m, k) == RoundHalfEvenBy(m, Pow10(k))

\* The result of an arithmetic operation, rounded to the context precision;
\* d is the decimal d.m * 10^(-d.e).
ContextRound(d) ==
    IF Digits(d.m) <= DecimalPrec THEN d
    ELSE LET k == Digits(d.m) - DecimalPrec
         IN  [m |-> RoundHalfEven(d.m, k), e |-> d.e - k]

\* to_integral_value(rounding="ROUND_DOWN") and int() of a positive decimal.
ToIntegralDown(d) ==
    IF d.e <= 0 THEN d.m * Pow10(0 - d.e) ELSE d.m \div Pow10(d.e)

\* Decimal(str(amount)) * Decimal(10) ** decimals, rounded down to an integer.
resolve_amount_to_base(amount, decimals) ==
    ToIntegralDown(ContextRound([m |-> amount.m, e |-> amount.e - decimals]))

\* resolve_amount_to_base raises ValueError.
ResolveRaises(amount, decimals) == decimals < 0 \/ amount.m <= 0

\* What a caller may pass as amount: a decimal number, text that is no number,
\* NaN or Infinity.
AmountArgs ==
    {[kind |-> "num", m |-> m, e |-> e] : m \in -1 .. MaxMantissa, e \in 0 .. MaxExponent}
    \cup {[kind |-> k, m |-> 0, e |-> 0] : k \in {"text", "nan", "inf"}}

DecimalsArgs == -1 .. 2

Returned(v) == [raises |-> "none", value |-> v]

Raised(exc) == [raises |-> exc, value |-> 0]

\* resolve_amount_to_base called on its own with any argument.
resolve_amount_to_base_call(amount, decimals) ==
    IF decimals < 0 THEN Raised("ValueError")
    ELSE IF amount.kind = "text" THEN Raised("ValueError")
    ELSE IF amount.kind = "nan" THEN Raised("InvalidOperation")   \* dec_amt <= 0
    ELSE IF amount.kind = "inf" THEN Raised("OverflowError")      \* int(base)
    ELSE IF ResolveRaises(amount, decimals) THEN Raised("ValueError")
    ELSE Returned(resolve_amount_to_base(amount, decimals))

\* The pool contract's getAmountOut: constant product with the 0.3% fee.
GetAmountOut(amountIn, reserveIn, reserveOut) ==
    (amountIn * 997 * reserveOut) \div (reserveIn * 1000 + amountIn * 997)

\* The quote dictionary the sepolia variant stores; str() and int() of the
\* integer amounts are exact and the amounts are kept as integers.
PoolQuote(intent, reserves, token0, amount_out_base) ==
    LET is01 == (intent.asset_in = token0)
    IN  [ fromToken           |-> intent.asset_in,
          toToken             |-> intent.asset_out,
          fromAmount          |-> resolve_amount_to_base(
                                      intent.amount,
                                      TokenDecimals("sepolia")[intent.asset_in]),
          toAmount            |-> amount_out_base,
          pool                |-> "LIQUIDITY_POOL",
          is_token0_to_token1 |-> is01,
          reserve_in          |-> IF is01 THEN reserves[1] ELSE reserves[2],
          reserve_out         |-> IF is01 THEN reserves[2] ELSE reserves[1] ]

\* Mutant: the reserves are handed to the pool in the other order.
PoolAmountOut_Reversed(intent, reserves, token0) ==
    LET is01 == (intent.asset_in = token0)
    IN  GetAmountOut(
            resolve_amount_to_base(intent.amount,
                                   TokenDecimals("sepolia")[intent.asset_in]),
            IF is01 THEN reserves[2] ELSE reserves[1],
            IF is01 THEN reserves[1] ELSE reserves[2])

\* The amount the pool is asked to quote: getAmountOut(amount_base, reserve_in, reserve_out).
PoolAmountOut(intent, reserves, token0) ==
    LET is01 == (intent.asset_in = token0)
    IN  GetAmountOut(
            resolve_amount_to_base(intent.amount,
                                   TokenDecimals("sepolia")[intent.asset_in]),
            IF is01 THEN reserves[1] ELSE reserves[2],
            IF is01 THEN reserves[2] ELSE reserves[1])

QuoteReady(st, quote) == [st EXCEPT !.quote = Some(quote), !.status = "quote_ready"]

quote_fetch_sepolia ==
    LET n == "QUOTE_FETCH" IN
    IF state.intent = None
    THEN Return(n, Fail(state, "missing intent"), <<>>, allowance)
    ELSE
      LET intent == Val(state.intent) IN
      IF intent.asset_in \notin TOKEN_MAP(variant) \/ intent.asset_out \notin TOKEN_MAP(variant)
      THEN Return(n, UnsupportedToken(state), <<>>, allowance)
      ELSE IF ResolveRaises(intent.amount, TokenDecimals(variant)[intent.asset_in])
      THEN Return(n, Fail(state, "amount must be > 0"), <<>>, allowance)
      ELSE
        \E readOk \in BOOLEAN :
          IF ~readOk
          THEN Return(n, Fail(state, "exception"), <<Ev(n, "pool.read", FALSE)>>, allowance)
          ELSE IF intent.asset_in \notin PoolTokens
          THEN Return(n, Fail(state, "Token not found in pool"),
                      <<Ev(n, "pool.read", TRUE)>>, allowance)
          ELSE
            \E outOk \in BOOLEAN :
              IF ~outOk
              THEN Return(n, Fail(state, "exception"),
                          <<Ev(n, "pool.read", TRUE), Ev(n, "pool.getAmountOut", FALSE)>>,
                          allowance)
              ELSE Return(n,
                          QuoteReady(state,
                              PoolQuote(intent, pool_reserves, pool_token0,
                                        PoolAmountOut(intent, pool_reserves, pool_token0))),
                          <<Ev(n, "pool.read", TRUE), Ev(n, "pool.getAmountOut", TRUE)>>,
                          allowance)

\* int(amount * price_in / price_out * 10^decimals) of the simulated quote.
EstimatedOutBase(amount, price_in, price_out, decimals) ==
    (amount.m * price_in * Pow10(decimals)) \div (Pow10(amount.e) * price_out)

SimulatedQuote(intent, price_in, price_out) ==
    [ toAmount     |-> EstimatedOutBase(intent.amount, price_in, price_out,
                                        TokenDecimals("legacy")[intent.asset_out]),
      fromToken    |-> intent.asset_in,
      toToken      |-> intent.asset_out,
      fromAmount   |-> resolve_amount_to_base(intent.amount,
                                              TokenDecimals("legacy")[intent.asset_in]),
      testing_mode |-> TRUE ]

\* The body of the 1inch quote response, stored as it is.
OneInchQuote(to_amount) == [toAmount |-> to_amount]

quote_fetch_legacy ==
    LET n == "QUOTE_FETCH" IN
    IF state.intent = None
    THEN Return(n, Fail(state, "missing intent"), <<>>, allowance)
    ELSE
      LET intent == Val(state.intent) IN
      IF intent.asset_in \notin TOKEN_MAP(variant) \/ intent.asset_out \notin TOKEN_MAP(variant)
      THEN Return(n, UnsupportedToken(state), <<>>, allowance)
      ELSE IF ResolveRaises(intent.amount, TokenDecimals(variant)[intent.asset_in])
      THEN Return(n, Fail(state, "amount must be > 0"), <<>>, allowance)
      ELSE IF IS_TESTING
      THEN
        \* memory.get("token_price", get_price_usd(a_in)) calls get_price_usd first
        \E o_in \in get_price_usd(n, intent.asset_in, SYMBOL_TO_ID) :
          IF ~o_in.ok
          THEN ReturnPrice(n, Fail(state, "exception"), o_in.evs, o_in.ids)
          ELSE
            \E o_out \in get_price_usd(n, intent.asset_out, o_in.ids) :
              IF ~o_out.ok
              THEN ReturnPrice(n, Fail(state, "exception"), o_in.evs \o o_out.evs,
                               o_out.ids)
              ELSE
                LET price_in == IF state.memory.token_price = None
                                THEN o_in.price
                                ELSE Val(state.memory.token_price)
                IN  ReturnPrice(n,
                                QuoteReady(state,
                                    SimulatedQuote(intent, price_in, o_out.price)),
                                o_in.evs \o o_out.evs, o_out.ids)
      ELSE
        \E ok \in BOOLEAN :
          IF ~ok
          THEN Return(n, Fail(state, "exception"), <<Ev(n, "1inch.quote", FALSE)>>, allowance)
          ELSE \E to_amount \in {0, MaxReserve} :
                 Return(n, QuoteReady(state, OneInchQuote(to_amount)),
                        <<Ev(n, "1inch.quote", TRUE)>>, allowance)

node_quote_fetch ==
    /\ "QUOTE_FETCH" \in active
    /\ IF variant = "sepolia" THEN quote_fetch_sepolia ELSE quote_fetch_legacy

-----------------------------------------------------------------------------
(* Node 4: BUILD_SWAP *)

RECURSIVE Pow2(_)
Pow2(n) == IF n = 0 THEN 1 ELSE 2 * Pow2(n - 1)

\* The number of bits of a positive integer.
RECURSIVE Bits(_)
Bits(m) == IF m < 2 THEN 1 ELSE 1 + Bits(m \div 2)

\* A positive integer rounded to a float significand of FloatBits bits, ties to
\* even (the conversion of an int operand, and the rounding of a product).
FloatRound(m) ==
    IF Bits(m) <= FloatBits THEN m
    ELSE LET unit == Pow2(Bits(m) - FloatBits)
         IN  RoundHalfEvenBy(m, unit) * unit

\* The float literal 0.98 is Float098 / 2^FloatBits.
Float098 == RoundHalfEvenBy(98 * Pow2(FloatBits), 100)

\* The exponent e at which a * 2^e / den has FloatBits bits (a > 0, a / den < 2^FloatBits).
RECURSIVE QuotExp(_, _, _)
QuotExp(a, den, e) ==
    IF a * Pow2(e) >= den * Pow2(FloatBits - 1) THEN e ELSE QuotExp(a, den, e + 1)

\* The float a / den of two integers, correctly rounded: x.m / 2^x.e.
FloatQuot(a, den) ==
    IF a = 0 THEN [m |-> 0, e |-> 0]
    ELSE LET e == QuotExp(a, den, 0)
         IN  [m |-> RoundHalfEvenBy(a * Pow2(e), den), e |-> e]

\* x < y of two floats. Two exponents more than one apart decide the order alone,
\* as every non-zero significand has FloatBits bits.
FloatLess(x, y) ==
    IF x.m = 0 THEN y.m > 0
    ELSE IF y.m = 0 THEN FALSE
    ELSE IF x.e > y.e + 1 THEN TRUE
    ELSE IF y.e > x.e + 1 THEN FALSE
    ELSE LET k == IF x.e < y.e THEN x.e ELSE y.e
         IN  x.m * Pow2(y.e - k) < y.m * Pow2(x.e - k)

\* int(int(quote["toAmount"]) * 0.98): 2% slippage tolerance, in float arithmetic.
MinAmountOut(to_amount) ==
    FloatRound(FloatRound(to_amount) * Float098) \div Pow2(FloatBits)

\* Mutant: the approval is built for more than the swap's input.
ApproveTx_Excess(token, spender, value, nonce) ==
    [fn |-> "approve", token |-> token, spender |-> spender, value |-> 2 * value + 1,
     nonce |-> nonce]

ApproveTx(token, spender, value, nonce) ==
    [fn |-> "approve", token |-> token, spender |-> spender, value |-> value,
     nonce |-> nonce]

\* pool.swap(amount0In, amount1In, minAmountOut)
PoolSwapTx(quote, nonce) ==
    [fn           |-> "swap",
     amount0In    |-> IF quote.is_token0_to_token1 THEN quote.fromAmount ELSE 0,
     amount1In    |-> IF quote.is_token0_to_token1 THEN 0 ELSE quote.fromAmount,
     minAmountOut |-> MinAmountOut(quote.toAmount),
     nonce        |-> nonce + 1]

SwapReady(st, swap_transaction) ==
    [st EXCEPT !.swap_transaction = Some(swap_transaction), !.status = "swap_ready"]

BuiltSepolia(st, nonce) ==
    LET quote == Val(st.quote) IN
    SwapReady(st, [approval_tx |-> ApproveTx(Val(st.intent).asset_in, "LIQUIDITY_POOL",
                                             quote.fromAmount, nonce),
                   swap_tx     |-> PoolSwapTx(quote, nonce),
                   pool        |-> "LIQUIDITY_POOL"])

\* current_balance < required_amount, each an integer divided by 10^decimals
\* into a float.
InsufficientSepolia(balance, quote) ==
    LET scale == Pow10(TokenDecimals("sepolia")[quote.fromToken])
    IN  FloatLess(FloatQuot(balance, scale), FloatQuot(quote.fromAmount, scale))

build_swap_sepolia ==
    LET n == "BUILD_SWAP" IN
    IF state.intent = None \/ state.quote = None
    THEN Return(n, Fail(state, "missing intent or quote"), <<>>, allowance)
    ELSE IF ~USER_WALLET_SET
    THEN Return(n, Fail(state, "missing user_wallet"), <<>>, allowance)
    ELSE
      \E balOk \in BOOLEAN :
        IF ~balOk
        THEN Return(n, Fail(state, "exception"), <<Ev(n, "balanceOf", FALSE)>>, allowance)
        ELSE
          \E balance \in BalanceSet :
            IF InsufficientSepolia(balance, Val(state.quote))
            THEN Return(n, Fail(state, "Insufficient balance"),
                        <<Ev(n, "balanceOf", TRUE)>>, allowance)
            ELSE
              \E buildOk \in BOOLEAN :
                IF ~buildOk
                THEN Return(n, Fail(state, "exception"),
                            <<Ev(n, "balanceOf", TRUE), Ev(n, "rpc.read", FALSE)>>, allowance)
                ELSE Return(n, BuiltSepolia(state, 0),
                            <<Ev(n, "balanceOf", TRUE), Ev(n, "rpc.read", TRUE)>>, allowance)

\* uniswap_router.exactInputSingle(swap_params)
UniswapSwapTx(intent, amount_base, nonce) ==
    [fn               |-> "exactInputSingle",
     tokenIn          |-> intent.asset_in,
     tokenOut         |-> intent.asset_out,
     amountIn         |-> amount_base,
     amountOutMinimum |-> 0,
     nonce            |-> nonce + 1]

BuiltUniswap(st, nonce) ==
    LET intent == Val(st.intent)
        amount_base == resolve_amount_to_base(intent.amount,
                                              TokenDecimals("legacy")[intent.asset_in])
    IN  SwapReady(st, [approval_tx  |-> ApproveTx(intent.asset_in, "UNISWAP_ROUTER",
                                                  amount_base, nonce),
                       swap_tx      |-> UniswapSwapTx(intent, amount_base, nonce),
                       router       |-> "UNISWAP_ROUTER",
                       testing_mode |-> TRUE])

\* The "tx" object of the 1inch swap response, stored as it is.
BuiltOneInch(st) == SwapReady(st, [fn |-> "1inch", to |-> "ONEINCH_ROUTER"])

\* initial_balance < amount, the balance divided by 10^decimals into a float
\* and the amount the float of the intent.
InsufficientLegacy(balance, intent) ==
    FloatLess(FloatQuot(balance, Pow10(TokenDecimals("legacy")[intent.asset_in])),
              FloatQuot(intent.amount.m, Pow10(intent.amount.e)))

\* The calls of the whale top-up, cut after the one that raises (stage 4: none does).
WhaleCalls(n, stage) ==
    LET all == <<"tenderly_setBalance", "rpc.read", "send:transfer", "wait:transfer">>
    IN  [i \in 1..(IF stage = 4 THEN 4 ELSE stage + 1) |-> Ev(n, all[i], i <= stage)]

\* The approval and the swap are built after the balance was read.
build_uniswap_tail(n, evs) ==
    \E buildOk \in BOOLEAN :
      IF ~buildOk
      THEN Return(n, Fail(state, "exception"), evs \o <<Ev(n, "rpc.read", FALSE)>>, allowance)
      ELSE Return(n, BuiltUniswap(state, 0), evs \o <<Ev(n, "rpc.read", TRUE)>>, allowance)

build_swap_legacy ==
    LET n == "BUILD_SWAP" IN
    IF state.intent = None
    THEN Return(n, Fail(state, "missing intent"), <<>>, allowance)
    ELSE
      LET intent == Val(state.intent) IN
      IF intent.asset_in \notin TOKEN_MAP(variant) \/ intent.asset_out \notin TOKEN_MAP(variant)
      THEN Return(n, UnsupportedToken(state), <<>>, allowance)
      ELSE IF ResolveRaises(intent.amount, TokenDecimals(variant)[intent.asset_in])
      THEN Return(n, Fail(state, "amount must be > 0"), <<>>, allowance)
      ELSE IF ~USER_WALLET_SET
      THEN Return(n, Fail(state, "missing user_wallet"), <<>>, allowance)
      ELSE IF IS_TESTING
      THEN
        \* the test wallet is a whale address: it is not funded with ETH
        \E balOk \in BOOLEAN :
          IF ~balOk
          THEN Return(n, Fail(state, "exception"), <<Ev(n, "balanceOf", FALSE)>>, allowance)
          ELSE
            \E balance \in BalanceSet :
              IF InsufficientLegacy(balance, intent) /\ intent.asset_in \in WHALES
              THEN \E stage \in 0..4 :
                     IF stage < 4
                     THEN Return(n, Fail(state, "exception"),
                                 <<Ev(n, "balanceOf", TRUE)>> \o WhaleCalls(n, stage),
                                 allowance)
                     ELSE build_uniswap_tail(n, <<Ev(n, "balanceOf", TRUE)>>
                                                   \o WhaleCalls(n, stage))
              ELSE build_uniswap_tail(n, <<Ev(n, "balanceOf", TRUE)>>)
      ELSE
        \E ok \in BOOLEAN :
          IF ~ok
          THEN Return(n, Fail(state, "exception"), <<Ev(n, "1inch.swap", FALSE)>>, allowance)
          ELSE Return(n, BuiltOneInch(state), <<Ev(n, "1inch.swap", TRUE)>>, allowance)

node_build_swap ==
    /\ "BUILD_SWAP" \in active
    /\ IF variant = "sepolia" THEN build_swap_sepolia ELSE build_swap_legacy

-----------------------------------------------------------------------------
(* Node 5: DECIDE and node 6: HUMAN_CONFIRM *)

\* Mutant: a trade worth exactly the threshold needs confirmation too.
AboveThreshold_AtLeast(total_usd) == total_usd.num >= CONFIRM_THRESHOLD_USD * total_usd.den

\* total_usd > 100
AboveThreshold(total_usd) == total_usd.num > CONFIRM_THRESHOLD_USD * total_usd.den

Decide(st) == [st EXCEPT !.confirmation_required = AboveThreshold(Val(st.price_usd))]

node_decide ==
    /\ "DECIDE" \in active
    /\ IF state.price_usd = None
       THEN \* None > 100 raises TypeError; the node has no try block
            Raise("DECIDE", <<>>)
       ELSE Return("DECIDE", Decide(state), <<>>, allowance)

\* The lines the user may type at the prompt, as sequences of characters.
Answers ==
    { <<"y", "e", "s">>, <<" ", "Y", "E", "S", " ">>, <<"Y", "e", "s", "\t">>,
      <<"y", "e", " ", "s">>, <<"y", "e", "s", "!">>, <<"n", "o">>, <<"y">>,
      <<" ">>, <<>> }

Whitespace == {" ", "\t"}

\* str.lower() of one character.
Lower(c) ==
    CASE c = "Y" -> "y"
      [] c = "E" -> "e"
      [] c = "S" -> "s"
      [] OTHER   -> c

\* str.strip(): the line without its leading and trailing whitespace.
RECURSIVE Strip(_)
Strip(line) ==
    IF line = <<>> THEN line
    ELSE IF Head(line) \in Whitespace THEN Strip(Tail(line))
    ELSE IF line[Len(line)] \in Whitespace THEN Strip(SubSeq(line, 1, Len(line) - 1))
    ELSE line

\* input(...).strip().lower()
StripLower(line) == [i \in DOMAIN Strip(line) |-> Lower(Strip(line)[i])]

\* The literal "yes".
Yes == <<"y", "e", "s">>

\* Mutant: any answer that begins with "y" approves.
HumanConfirm_AcceptsY(st, line) ==
    [st EXCEPT !.user_approved =
        Some(StripLower(line) # <<>> /\ Head(StripLower(line)) = "y")]

HumanConfirm(st, line) == [st EXCEPT !.user_approved = Some(StripLower(line) = Yes)]

node_human_confirm ==
    /\ "HUMAN_CONFIRM" \in active
    /\ IF state.intent = None
       THEN \* state.get("intent", {}) is None and None.get raises AttributeError
            Raise("HUMAN_CONFIRM", <<>>)
       ELSE \E ok \in BOOLEAN :
              IF ~ok
              THEN \* input() raises EOFError when stdin is closed
                   Raise("HUMAN_CONFIRM", <<Ev("HUMAN_CONFIRM", "input", FALSE)>>)
              ELSE \E line \in Answers :
                     ReturnTyped("HUMAN_CONFIRM", HumanConfirm(state, line),
                                 <<Ev("HUMAN_CONFIRM", "input", TRUE)>>, allowance,
                                 Some(line))

-----------------------------------------------------------------------------
(* Node 7: EXECUTE *)

\* Python truthiness of an Optional[bool].
Truthy(o) == o # None /\ Val(o)

\* Mutant: only a missing answer rejects, a "no" does not.
ExecuteRejects_OnlyUnanswered(st) == st.confirmation_required /\ st.user_approved = None

\* state.get("confirmation_required") and not state.get("user_approved")
ExecuteRejects(st) == st.confirmation_required /\ ~Truthy(st.user_approved)

\* Mutant: the rejection is recorded under a status outside the enumeration.
Rejected_Cancelled(st) == [st EXCEPT !.status = "cancelled"]

Rejected(st) == [st EXCEPT !.status = "rejected"]

\* Mutant: the status is set and the hash of the submitted swap is not stored.
Executed_NoHash(st) == [st EXCEPT !.status = "executed"]

Executed(st) == [st EXCEPT !.execution_tx_hash = Some("0xswap"), !.status = "executed"]

ReceiptStatuses == {"success", "reverted"}

\* The sepolia variant raises unless the approval receipt reports status 1.
ApprovalAccepted(receipt) == receipt = "success"

\* The allowance on chain once the approval was mined with the given receipt.
Approved(alw, tx, receipt) == IF receipt = "success" THEN tx.value ELSE alw

execute_swap_sepolia ==
    LET n == "EXECUTE" IN
    IF ExecuteRejects(state)
    THEN Return(n, Rejected(state), <<>>, allowance)
    ELSE IF state.swap_transaction = None
    THEN Return(n, Fail(state, "No swap transaction object available"), <<>>, allowance)
    ELSE IF ~PRIVATE_KEY_SET
    THEN Return(n, Fail(state, "Private key missing"), <<>>, allowance)
    ELSE
      LET approval_tx == Val(state.swap_transaction).approval_tx IN
      \E sendOk \in BOOLEAN :
        IF ~sendOk
        THEN Return(n, Fail(state, "Execution failed"),
                    <<Ev(n, "send:approve", FALSE)>>, allowance)
        ELSE
          \E waitOk \in BOOLEAN :
            IF ~waitOk
            THEN Return(n, Fail(state, "Execution failed"),
                        <<Ev(n, "send:approve", TRUE), Ev(n, "wait:approve", FALSE)>>,
                        allowance)
            ELSE
              \E receipt \in ReceiptStatuses :
                LET evs == <<Ev(n, "send:approve", TRUE),
                             EvReceipt(n, "wait:approve", receipt)>>
                    alw == Approved(allowance, approval_tx, receipt)
                IN  IF ~ApprovalAccepted(receipt)
                    THEN Return(n, Fail(state, "Execution failed"), evs, alw)
                    ELSE \E swapOk \in BOOLEAN :
                           IF ~swapOk
                           THEN Return(n, Fail(state, "Execution failed"),
                                       evs \o <<Ev(n, "send:swap", FALSE)>>, alw)
                           ELSE Return(n, Executed(state),
                                       evs \o <<Ev(n, "send:swap", TRUE)>>, alw)

\* The swap of the fork run: submitted after the approval step, whatever its receipt.
execute_fork_swap(n, evs, alw) ==
    \E swapOk \in BOOLEAN :
      IF ~swapOk
      THEN Return(n, Fail(state, "Swap execution failed"),
                  evs \o <<Ev(n, "send:swap", FALSE)>>, alw)
      ELSE Return(n, Executed(state), evs \o <<Ev(n, "send:swap", TRUE)>>, alw)

execute_swap_legacy ==
    LET n == "EXECUTE" IN
    IF ExecuteRejects(state)
    THEN Return(n, Rejected(state), <<>>, allowance)
    ELSE IF state.swap_transaction = None
    THEN Return(n, Fail(state, "No swap transaction object available"), <<>>, allowance)
    ELSE IF ~IS_TESTING
    THEN Return(n, Fail(state, "Mainnet execution not configured"), <<>>, allowance)
    ELSE IF "approval_tx" \notin DOMAIN Val(state.swap_transaction)
    THEN execute_fork_swap(n, <<>>, allowance)
    ELSE
      LET approval_tx == Val(state.swap_transaction).approval_tx IN
      \E sendOk \in BOOLEAN :
        IF ~sendOk
        THEN Return(n, Fail(state, "Approval failed"),
                    <<Ev(n, "send:approve", FALSE)>>, allowance)
        ELSE
          \E waitOk \in BOOLEAN :
            IF ~waitOk
            THEN Return(n, Fail(state, "Approval failed"),
                        <<Ev(n, "send:approve", TRUE), Ev(n, "wait:approve", FALSE)>>,
                        allowance)
            ELSE
              \E receipt \in ReceiptStatuses :
                execute_fork_swap(n,
                    <<Ev(n, "send:approve", TRUE), EvReceipt(n, "wait:approve", receipt)>>,
                    Approved(allowance, approval_tx, receipt))

node_execute_swap ==
    /\ "EXECUTE" \in active
    /\ IF variant = "sepolia" THEN execute_swap_sepolia ELSE execute_swap_legacy

-----------------------------------------------------------------------------
(* Node 8: MONITOR *)

\* Mutant: any receipt counts as a confirmation.
MonitorConfirmed_AnyReceipt(receipt) == receipt \in {"success", "reverted"}

\* receipt["status"] == 1
MonitorConfirmed(receipt) == receipt = "success"

Completed(st, final_balance) ==
    [st EXCEPT !.status = "completed", !.memory.final_balance = Some(final_balance)]

\* The allowance on chain once the swap was mined: a successful swap spends it.
Spent(alw, receipt) == IF receipt = "success" THEN 0 ELSE alw

node_monitor_tx ==
    LET n == "MONITOR" IN
    /\ n \in active
    /\ IF state.execution_tx_hash = None
       THEN \* wait_for_transaction_receipt(None): the node rejects the request or
            \* the wait times out; either way the call raises inside the try block
            Return(n, Fail(state, "exception"), <<Ev(n, "wait:swap", FALSE)>>, allowance)
       ELSE
         \E waitOk \in BOOLEAN :
           IF ~waitOk
           THEN Return(n, Fail(state, "exception"), <<Ev(n, "wait:swap", FALSE)>>, allowance)
           ELSE
             \E receipt \in ReceiptStatuses :
               IF ~MonitorConfirmed(receipt)
               THEN Return(n, Fail(state, "Transaction reverted"),
                           <<EvReceipt(n, "wait:swap", receipt)>>, Spent(allowance, receipt))
               ELSE
                 \E balOk \in BOOLEAN :
                   IF ~balOk
                   THEN Return(n, Fail(state, "exception"),
                               <<EvReceipt(n, "wait:swap", receipt),
                                 Ev(n, "balanceOf", FALSE)>>,
                               Spent(allowance, receipt))
                   ELSE \E final_balance \in BalanceSet :
                          Return(n, Completed(state, final_balance),
                                 <<EvReceipt(n, "wait:swap", receipt),
                                   Ev(n, "balanceOf", TRUE)>>,
                                 Spent(allowance, receipt))

-----------------------------------------------------------------------------

\* The pipeline before app.invoke.
InitPipeline ==
    /\ variant \in Variants
    /\ IS_TESTING \in (IF variant = "legacy" THEN BOOLEAN ELSE {FALSE})
    /\ pool_token0 \in (IF variant = "sepolia" THEN PoolTokens ELSE {"DASH"})
    /\ pool_reserves \in (IF variant = "sepolia" THEN ReserveSet
                                                 ELSE {<<MaxReserve, MaxReserve>>})
    /\ state = initial_state
    /\ active = {"INTERPRET_INTENT"}
    /\ ran = <<>>
    /\ raised = FALSE
    /\ calls = <<>>
    /\ everFailed = FALSE
    /\ allowance = 0
    /\ typed = None
    /\ SYMBOL_TO_ID = SYMBOL_TO_ID_INITIAL

Init ==
    /\ InitPipeline
    /\ call_args = None
    /\ call_result = None

\* A helper function is called on its own, outside the pipeline.
CallsHelper(result) ==
    /\ call_result = None
    /\ call_result' = Some(result)
    /\ UNCHANGED <<variant, IS_TESTING, pool_token0, pool_reserves, state, active, ran, raised, calls,
                   everFailed, allowance, typed, SYMBOL_TO_ID, call_args>>

InitResolve ==
    /\ InitPipeline
    /\ call_args \in [amount : AmountArgs, decimals : DecimalsArgs]
    /\ call_result = None

NextResolve ==
    CallsHelper(resolve_amount_to_base_call(call_args.amount, call_args.decimals))

SpecResolve == InitResolve /\ [][NextResolve]_vars

InitMinAmountOut ==
    /\ InitPipeline
    /\ call_args \in [to_amount : 0 .. MaxToAmount]
    /\ call_result = None

NextMinAmountOut == CallsHelper(Returned(MinAmountOut(call_args.to_amount)))

SpecMinAmountOut == InitMinAmountOut /\ [][NextMinAmountOut]_vars

\* A balance next to the amount to be swapped, and the quote naming that amount.
BalanceCheckArgs ==
    UNION {{[balance |-> b, quote |-> [fromAmount |-> a, fromToken |-> t]] :
               b \in {a - 1, a, a + 1}, t \in PoolTokens} : a \in 1 .. MaxToAmount}

InitBalanceCheck ==
    /\ InitPipeline
    /\ call_args \in BalanceCheckArgs
    /\ call_result = None

NextBalanceCheck ==
    CallsHelper(Returned(InsufficientSepolia(call_args.balance, call_args.quote)))

SpecBalanceCheck == InitBalanceCheck /\ [][NextBalanceCheck]_vars

Next ==
    \/ node_interpret_intent
    \/ node_price_fetch
    \/ node_quote_fetch
    \/ node_build_swap
    \/ node_decide
    \/ node_human_confirm
    \/ node_execute_swap
    \/ node_monitor_tx

Spec == Init /\ [][Next]_vars

-----------------------------------------------------------------------------
(* What the run has done, read off the call log *)

Range(seq) == {seq[i] : i \in DOMAIN seq}

\* The calls of one operation, successful or not.
CallsOf(op) == {i \in DOMAIN calls : calls[i].op = op}

SendOps == {"send:approve", "send:swap", "send:transfer"}

\* The run is over: nothing is scheduled.
RunEnded == active = {}

PriceAboveThreshold == state.price_usd # None /\ AboveThreshold(Val(state.price_usd))

AnsweredYes == typed # None /\ StripLower(Val(typed)) = Yes

ApprovalConfirmed ==
    \E i \in CallsOf("wait:approve") : calls[i].receipt = "success"

SwapFailedOrReverted ==
    \/ \E i \in CallsOf("send:swap") : ~calls[i].ok
    \/ \E i \in CallsOf("wait:swap") : calls[i].receipt = "reverted"

\* DECIDE has run and returned (it did not raise).
DecideReturned ==
    "DECIDE" \in Range(ran) /\ ~(raised /\ ran[Len(ran)] = "DECIDE")

\* The position of a node in the pipeline.
Position(n) ==
    CASE n = "INTERPRET_INTENT" -> 1
      [] n = "PRICE_FETCH"      -> 2
      [] n = "QUOTE_FETCH"      -> 3
      [] n = "BUILD_SWAP"       -> 4
      [] n = "DECIDE"           -> 5
      [] n = "HUMAN_CONFIRM"    -> 6
      [] n = "EXECUTE"          -> 7
      [] n = "MONITOR"          -> 8

\* b may directly follow a in a run.
Follows(a, b) ==
    \/ Position(b) = Position(a) + 1
    \/ a = "DECIDE" /\ b = "EXECUTE"

-----------------------------------------------------------------------------
(* The claims *)

\* C1: when the total USD value computed by PRICE_FETCH exceeds 100, an approval
\* or swap transaction is submitted only by EXECUTE and only if the user answered
\* "yes" at HUMAN_CONFIRM; after any other answer neither is ever submitted.
C1_HighValueNeedsYes ==
    PriceAboveThreshold =>
        \A i \in CallsOf("send:approve") \cup CallsOf("send:swap") :
            calls[i].node = "EXECUTE" /\ AnsweredYes

C1_Witness ==
    /\ PriceAboveThreshold
    /\ AnsweredYes
    /\ \E i \in CallsOf("send:swap") : calls[i].ok
    /\ \E i \in CallsOf("send:approve") : calls[i].ok

\* C2: once a step has set status to "failed" the workflow halts: no later
\* step runs and no further external call or submission is made.
C2_HaltsAfterFailure == [][everFailed => (ran' = ran /\ calls' = calls)]_vars

\* C3: no exception propagates out of app.invoke: every exception raised while a
\* step runs is caught in that step.
C3_NoExceptionEscapes == ~raised

\* C4: if a step recorded an error during the run, the status when the run ends
\* is "failed".
C4_ErrorEndsFailed ==
    (RunEnded /\ ~raised /\ state.error # None) => state.status = "failed"

\* C5: the steps run in the fixed order INTERPRET_INTENT, PRICE_FETCH,
\* QUOTE_FETCH, BUILD_SWAP, DECIDE, (HUMAN_CONFIRM), EXECUTE, MONITOR, each at
\* most once, each after its predecessor returned, and at most one at a time.
C5_FixedOrder ==
    /\ Cardinality(active) <= 1
    /\ ran # <<>> => ran[1] = "INTERPRET_INTENT"
    /\ \A i \in DOMAIN ran : i > 1 => Follows(ran[i - 1], ran[i])
    /\ \A n \in active :
         IF ran = <<>> THEN n = "INTERPRET_INTENT" ELSE Follows(ran[Len(ran)], n)

C5_Witness == RunEnded /\ ~raised /\ Len(ran) = 8

\* C6: HUMAN_CONFIRM runs if and only if DECIDE set confirmation_required to
\* True; when it is False the workflow goes from DECIDE directly to EXECUTE and
\* user_approved keeps its initial value None.
C6_OnlyBranch ==
    /\ "HUMAN_CONFIRM" \in Range(ran) => state.confirmation_required
    /\ (DecideReturned /\ state.confirmation_required) =>
           \/ "HUMAN_CONFIRM" \in Range(ran)
           \/ active = {"HUMAN_CONFIRM"}
    /\ (DecideReturned /\ ~state.confirmation_required) =>
           /\ "HUMAN_CONFIRM" \notin Range(ran) \cup active
           /\ state.user_approved = None
           /\ ran[Len(ran)] = "DECIDE" => active = {"EXECUTE"}
           /\ \A i \in DOMAIN ran : ran[i] = "EXECUTE" => ran[i - 1] = "DECIDE"

C6_Witness ==
    /\ ~state.confirmation_required
    /\ Len(ran) = 6
    /\ ran[5] = "DECIDE"
    /\ ran[6] = "EXECUTE"
    /\ state.user_approved = None

\* C7: state["status"] is always one of the eight values of the enumeration.
C7_StatusEnumerated == state.status \in Statuses

C7_Witness == state.status = "rejected" /\ "EXECUTE" \in Range(ran)

\* C8: status "failed" implies that state["error"] holds a string.
C8_FailedHasError == state.status = "failed" => state.error # None

C8_Witness ==
    /\ state.status = "failed"
    /\ state.error = Some("Could not parse JSON from LLM")

\* C9: no retries: the approval and the swap are each submitted at most once, and
\* a failed submission or receipt wait is not attempted again.
C9_NoRetries ==
    \A op \in {"send:approve", "send:swap", "wait:approve", "wait:swap"} :
        Cardinality(CallsOf(op)) <= 1

C9_Witness ==
    /\ RunEnded
    /\ \E i \in CallsOf("send:swap") : ~calls[i].ok
    /\ \E i \in CallsOf("wait:swap") : ~calls[i].ok

\* C10: no partial rollback: once the approval was confirmed and the swap
\* submission failed or the swap was reverted, the run ends with status "failed",
\* nothing but the swap is submitted after the approval, and the allowance
\* granted by the approval stays in place.
C10_NoRollback ==
    (ApprovalConfirmed /\ SwapFailedOrReverted) =>
        /\ RunEnded => state.status = "failed"
        /\ \A i \in CallsOf("send:approve"), j \in DOMAIN calls :
              (j > i /\ calls[j].op \in SendOps) => calls[j].op = "send:swap"
        /\ allowance = Val(state.swap_transaction).approval_tx.value

C10_Witness ==
    /\ RunEnded
    /\ ApprovalConfirmed
    /\ allowance > 0
    /\ \E i \in CallsOf("wait:swap") : calls[i].receipt = "reverted"

\* The symbols of the parsed intent, as get_price_usd may be called with them.
IntentSymbols ==
    IF state.intent = None THEN {}
    ELSE {Val(state.intent).asset_in, Val(state.intent).asset_out}

C12_FloorScaling ==
    call_result # None =>
        LET a == call_args.amount
            d == call_args.decimals
            r == Val(call_result)
        IN  /\ (a.kind = "num" /\ a.m > 0 /\ d >= 0) =>
                  /\ r.raises = "none"
                  /\ r.value = (a.m * Pow10(d)) \div Pow10(a.e)
                  /\ r.value * Pow10(a.e) <= a.m * Pow10(d)
            /\ (d < 0 \/ a.kind = "text" \/ (a.kind = "num" /\ a.m <= 0)) =>
                  r.raises = "ValueError"

\* The intent amount in base units of asset_in: amount * 10^decimals, whole part.
AmountBase(intent, v) ==
    (intent.amount.m * Pow10(TokenDecimals(v)[intent.asset_in]))
        \div Pow10(intent.amount.e)

\* The pool's reserve of a pool token, as getReserves returns it.
ReserveOf(symbol) == IF symbol = pool_token0 THEN pool_reserves[1] ELSE pool_reserves[2]

OtherPoolToken(symbol) == CHOOSE t \in PoolTokens : t # symbol

\* C13: in the sepolia variant a stored quote carries the pool's
\* getAmountOut(amount_base, reserve_in, reserve_out), with amount_base the intent
\* amount in base units of asset_in, reserve_in the pool's reserve of asset_in and
\* reserve_out the reserve of the pool's other token, from one getReserves call.
C13_QuoteIsPoolAmountOut ==
    (variant = "sepolia" /\ state.quote # None) =>
        LET intent == Val(state.intent)
            quote  == Val(state.quote)
            rin    == ReserveOf(intent.asset_in)
            rout   == ReserveOf(OtherPoolToken(intent.asset_in))
        IN  /\ intent.asset_in \in PoolTokens
            /\ quote.fromAmount = AmountBase(intent, variant)
            /\ quote.reserve_in = rin
            /\ quote.reserve_out = rout
            /\ quote.toAmount = GetAmountOut(AmountBase(intent, variant), rin, rout)
            /\ Cardinality(CallsOf("pool.read")) = 1

\* A quote for the token1 -> token0 direction of a pool with unequal reserves.
C13_Witness ==
    /\ variant = "sepolia"
    /\ state.quote # None
    /\ Val(state.intent).asset_in # pool_token0
    /\ pool_reserves[1] # pool_reserves[2]
    /\ Val(state.quote).toAmount > 0

\* C14: the minAmountOut of the sepolia swap transaction is 98% of the quoted
\* output rounded down, so it lies between 0 and the quoted output and the
\* tolerated shortfall is at most 2% of the quote plus one base unit.
C14_MinAmountOut98 ==
    call_result # None =>
        LET to_amount      == call_args.to_amount
            min_amount_out == Val(call_result).value
        IN  /\ min_amount_out = (to_amount * 98) \div 100
            /\ 0 <= min_amount_out /\ min_amount_out <= to_amount
            /\ (to_amount - min_amount_out) * 100 <= 2 * to_amount + 100

\* A step in which node n ran and returned its state.
NodeReturned(n) == ran' = Append(ran, n) /\ ~raised'

\* Every field of the state but f is the same before and after the step.
OnlyFieldChanged(f) == \A g \in DOMAIN state \ {f} : state'[g] = state[g]

\* C15: DECIDE sets confirmation_required to True exactly when price_usd is
\* strictly greater than 100 (a trade worth exactly 100 or less is auto-approved)
\* and changes no other field of the state.
C15_DecideThreshold ==
    [][NodeReturned("DECIDE") =>
          /\ state'.confirmation_required =
                (Val(state.price_usd).num > 100 * Val(state.price_usd).den)
          /\ OnlyFieldChanged("confirmation_required")]_vars

\* DECIDE has auto-approved a trade worth exactly 100 USD.
C15_Witness ==
    /\ DecideReturned
    /\ state.price_usd = Some([num |-> 100, den |-> 1])
    /\ ~state.confirmation_required
    /\ "EXECUTE" \in active

\* C16: HUMAN_CONFIRM sets user_approved to True exactly when the typed line,
\* trimmed of whitespace and lower-cased, is "yes"; every other answer, "y" and
\* the empty line included, sets it to False; no other field of the state changes.
C16_OnlyYesApproves ==
    [][NodeReturned("HUMAN_CONFIRM") =>
          /\ typed' # None
          /\ state'.user_approved = Some(StripLower(Val(typed')) = Yes)
          /\ Val(typed') \in {<<"y">>, <<>>} => state'.user_approved = Some(FALSE)
          /\ OnlyFieldChanged("user_approved")]_vars

\* The user typed " YES " and was taken to approve.
C16_Witness ==
    /\ typed = Some(<<" ", "Y", "E", "S", " ">>)
    /\ state.user_approved = Some(TRUE)
    /\ state.confirmation_required

\* The body the LLM returned in the step that is being taken.
LLMReply == Val(calls'[Len(calls')].reply)

\* C17: INTERPRET_INTENT stores the intent and sets status "intent_parsed" only
\* when the LLM response is JSON with action, asset_in, asset_out and an amount
\* greater than 0; for every other response intent stays None, status becomes
\* "failed" and an error string is recorded.
C17_IntentOnlyFromValidJson ==
    [][NodeReturned("INTERPRET_INTENT") =>
          IF LLMReply.kind = "json" /\ LLMReply.amount.m > 0
          THEN /\ state'.intent = Some([action    |-> LLMReply.action,
                                        asset_in  |-> LLMReply.asset_in,
                                        asset_out |-> LLMReply.asset_out,
                                        amount    |-> LLMReply.amount])
               /\ state'.status = "intent_parsed"
               /\ state'.error = None
          ELSE /\ state'.intent = None
               /\ state'.status = "failed"
               /\ state'.error # None]_vars

\* The LLM returned complete JSON with amount 0 and the node refused it.
C17_Witness ==
    /\ ran = <<"INTERPRET_INTENT">>
    /\ ~raised
    /\ Val(calls[1].reply).kind = "json"
    /\ Val(calls[1].reply).amount.m = 0
    /\ state.intent = None
    /\ state.status = "failed"

\* C18: in both variants, when asset_in or asset_out is not a key of TOKEN_MAP,
\* QUOTE_FETCH sets status "failed" with the "unsupported token symbol" error,
\* leaves quote None and makes no pool, price or aggregator call; a quote is
\* produced only for symbols of the token map.
C18_UnmappedSymbolNoQuote ==
    [][NodeReturned("QUOTE_FETCH") =>
          LET intent == Val(state.intent)
              mapped == DOMAIN TokenDecimals(variant)
          IN  /\ (intent.asset_in \notin mapped \/ intent.asset_out \notin mapped) =>
                    /\ state'.status = "failed"
                    /\ state'.error = Some("unsupported token symbol")
                    /\ state'.quote = None
                    /\ calls' = calls
              /\ state'.quote # None =>
                    intent.asset_in \in mapped /\ intent.asset_out \in mapped]_vars

\* QUOTE_FETCH refused a mapped asset_in with an unmapped asset_out, after the
\* price of asset_in had been fetched.
C18_Witness ==
    /\ "QUOTE_FETCH" \in Range(ran)
    /\ Val(state.intent).asset_in \in TOKEN_MAP(variant)
    /\ Val(state.intent).asset_out \notin TOKEN_MAP(variant)
    /\ state.memory.token_price # None
    /\ state.error = Some("unsupported token symbol")
    /\ state.quote = None
    /\ calls[Len(calls)].node = "PRICE_FETCH"

\* C19: when confirmation is required and the user does not approve, the run
\* ends with status "rejected" and error None; the rejection recorded by EXECUTE
\* is not replaced by another status.
C19_RejectionIsFinal ==
    (RunEnded /\ ~raised /\ "EXECUTE" \in Range(ran)
        /\ state.confirmation_required /\ ~Truthy(state.user_approved)) =>
            /\ state.status = "rejected"
            /\ state.error = None

\* The approval was reverted or its submission failed.
ApprovalFailed ==
    \/ \E i \in CallsOf("send:approve") : ~calls[i].ok
    \/ \E i \in CallsOf("wait:approve") : calls[i].receipt = "reverted"

\* C20: in both variants the swap is submitted only after the approval was mined
\* with receipt status 1; when the approval is reverted or its submission fails,
\* the swap is never submitted and the status becomes "failed".
C20_SwapOnlyAfterApproval ==
    /\ \A i \in CallsOf("send:swap") :
          \E j \in CallsOf("wait:approve") : j < i /\ calls[j].receipt = "success"
    /\ ApprovalFailed =>
          /\ CallsOf("send:swap") = {}
          /\ state.status = "failed"

\* The requests that change the chain: a submitted transaction, or the fork's
\* balance override.
StateChangingOps == SendOps \cup {"tenderly_setBalance"}

\* C21: in both variants the steps before EXECUTE only read external state and
\* build unsigned transactions: no transaction is submitted and no state-changing
\* RPC request is made before EXECUTE runs.
C21_NothingSentBeforeExecute ==
    \A i \in DOMAIN calls :
        calls[i].op \in StateChangingOps => calls[i].node = "EXECUTE"

\* C22: in the sepolia variant QUOTE_FETCH produces a quote only when asset_in
\* and asset_out are the pool's two distinct tokens; for any other pair, asset_in
\* equal to asset_out or an asset_out outside the pool included, the status is
\* "failed" and quote stays None.
C22_QuoteOnlyForPoolPair ==
    [][(variant = "sepolia" /\ NodeReturned("QUOTE_FETCH")) =>
          LET intent == Val(state.intent)
              pair   == /\ intent.asset_in \in PoolTokens
                        /\ intent.asset_out \in PoolTokens
                        /\ intent.asset_in # intent.asset_out
          IN  /\ state'.quote # None => pair
              /\ ~pair => (state'.status = "failed" /\ state'.quote = None)]_vars

\* C25: the amount converted for a swap is never zero: every amount that
\* resolve_amount_to_base accepts gives at least 1 base unit, so QUOTE_FETCH never
\* asks the pool for a quote on, and BUILD_SWAP never builds an approval or a swap
\* for, an input of 0 base units.
C25_NeverZeroBaseUnits ==
    (state.intent # None /\ Val(state.intent).asset_in \in TOKEN_MAP(variant)) =>
        /\ CallsOf("pool.getAmountOut") # {} =>
              AmountBase(Val(state.intent), variant) >= 1
        /\ (state.quote # None /\ "fromAmount" \in DOMAIN Val(state.quote)) =>
              Val(state.quote).fromAmount >= 1
        /\ (state.swap_transaction # None
              /\ "approval_tx" \in DOMAIN Val(state.swap_transaction)) =>
              Val(state.swap_transaction).approval_tx.value >= 1

\* C23: in the sepolia variant the built swap has exactly one non-zero input side,
\* the side of the input token: (amount0In, amount1In) is (amount_base, 0) when
\* asset_in is the pool's token0 and (0, amount_base) when it is token1, the
\* direction being the quote's is_token0_to_token1 flag.
C23_SwapSideIsInputToken ==
    (variant = "sepolia" /\ state.swap_transaction # None) =>
        LET intent  == Val(state.intent)
            quote   == Val(state.quote)
            swap_tx == Val(state.swap_transaction).swap_tx
            base    == AmountBase(intent, variant)
        IN  /\ quote.is_token0_to_token1 = (intent.asset_in = pool_token0)
            /\ <<swap_tx.amount0In, swap_tx.amount1In>> =
                  IF quote.is_token0_to_token1 THEN <<base, 0>> ELSE <<0, base>>
            /\ (swap_tx.amount0In # 0) # (swap_tx.amount1In # 0)

\* C24: in the sepolia variant the allowance approved to the pool is exactly the
\* swap's input: the approval's value, the swap's input and quote.fromAmount are
\* the same integer, the intent amount in base units of asset_in, and the pool is
\* never approved for more than the swap spends.
C24_ApprovalEqualsSwapInput ==
    (variant = "sepolia" /\ state.swap_transaction # None) =>
        LET intent      == Val(state.intent)
            quote       == Val(state.quote)
            approval_tx == Val(state.swap_transaction).approval_tx
            swap_tx     == Val(state.swap_transaction).swap_tx
            swap_input  == swap_tx.amount0In + swap_tx.amount1In
        IN  /\ approval_tx.spender = "LIQUIDITY_POOL"
            /\ approval_tx.token = intent.asset_in
            /\ approval_tx.value = swap_input
            /\ swap_input = quote.fromAmount
            /\ quote.fromAmount = AmountBase(intent, variant)
            /\ allowance <= swap_input

\* The approval for 500 base units of the pool's token1 was mined and the
\* allowance is exactly the swap's input.
C24_Witness ==
    /\ variant = "sepolia"
    /\ state.swap_transaction # None
    /\ Val(state.intent).asset_in # pool_token0
    /\ Val(state.swap_transaction).swap_tx.amount1In = 500
    /\ allowance = 500

\* C26: in the sepolia variant BUILD_SWAP goes on to build the approval and the
\* swap, store swap_transaction and set "swap_ready" only if the wallet's balance
\* of the input token is at least the amount to be swapped; when the balance is
\* lower it reports "Insufficient balance" and builds nothing.
C26_BuildOnlyWithBalance ==
    call_result # None =>
        (Val(call_result).value = (call_args.balance < call_args.quote.fromAmount))

\* The receipt of the swap that the step being taken waited for reports status 1.
SwapReceiptSuccess ==
    \E i \in (Len(calls) + 1) .. Len(calls') :
        calls'[i].op = "wait:swap" /\ calls'[i].receipt = "success"

\* C27: MONITOR sets status "completed" if and only if the receipt of the
\* submitted swap reports status 1; for any other status, a timeout or an
\* exception it sets "failed" and records an error; memory.final_balance is
\* written only in the completed case.
C27_CompletedIffReceiptSuccess ==
    [][NodeReturned("MONITOR") =>
          /\ (state'.status = "completed") = SwapReceiptSuccess
          /\ ~SwapReceiptSuccess => (state'.status = "failed" /\ state'.error # None)
          /\ state'.memory.final_balance # state.memory.final_balance =>
                state'.status = "completed"]_vars

\* C28: in either variant status "executed" or "completed" implies that
\* execution_tx_hash is set, execution_tx_hash is set only if EXECUTE submitted the
\* swap in this run, and on every EXECUTE path that rejects or fails it stays None.
C28_HashIffSwapSubmitted ==
    [][/\ state'.status \in {"executed", "completed"} =>
              state'.execution_tx_hash # None
       /\ state'.execution_tx_hash # None =>
              \E i \in DOMAIN calls' :
                  /\ calls'[i].op = "send:swap"
                  /\ calls'[i].ok
                  /\ calls'[i].node = "EXECUTE"
       /\ (NodeReturned("EXECUTE") /\ state'.status \in {"rejected", "failed"}) =>
              state'.execution_tx_hash = None]_vars

\* EXECUTE submitted the swap and stored its hash.
C28_Witness ==
    /\ state.status = "executed"
    /\ state.execution_tx_hash # None
    /\ ran[Len(ran)] = "EXECUTE"
    /\ calls[Len(calls)].op = "send:swap"

\* C29: in the legacy variant in production mode (IS_TESTING false) no run ever
\* submits a transaction: unless EXECUTE rejects first, it sets status "failed"
\* with error "Mainnet execution not configured", and execution_tx_hash stays None.
C29_ProductionNeverSubmits ==
    [][(variant = "legacy" /\ ~IS_TESTING) =>
          /\ \A i \in DOMAIN calls' : calls'[i].op \notin StateChangingOps
          /\ state'.execution_tx_hash = None
          /\ NodeReturned("EXECUTE") =>
                IF state.confirmation_required /\ ~Truthy(state.user_approved)
                THEN state'.status = "rejected"
                ELSE /\ state'.status = "failed"
                     /\ state'.error = Some("Mainnet execution not configured")]_vars

====
